---- MODULE Spec2Model ----
(***************************************************************************)
(* Model of run_agent (src/src/agent.py): the stdio client that launches   *)
(* the GitHub MCP server in a container, sends one get_me request, and     *)
(* recovers the one authoritative JSON record from the captured output.    *)
(*                                                                         *)
(* Text is modelled as a run-length encoded character sequence: a run is   *)
(* [c |-> symbol, n |-> count].  For a character symbol n is the number of *)
(* repetitions; for a JSON document or a string literal n is the number of *)
(* leading characters of its serialisation that are present, so slicing    *)
(* ([:500], [:1000]) is computed on real character counts.                 *)
(***************************************************************************)
EXTENDS Integers, Sequences, FiniteSets, TLC

-----------------------------------------------------------------------------
(* Bounds of the model *)

\* most lines the child writes to stdout in one session
MaxLines == 2

-----------------------------------------------------------------------------
(* Python / JSON values *)

PyNone == [t |-> "none"]
JNull == [t |-> "null"]
JBool(b) == [t |-> "bool", b |-> b]
JNum(k) == [t |-> "num", k |-> k]
JStr(s) == [t |-> "str", s |-> s]
JList(l) == [t |-> "list", l |-> l]
JObj(m) == [t |-> "obj", m |-> m]
EmptyMap == [k \in {} |-> JNull]
One(k, v) == [x \in {k} |-> v]
Two(k1, v1, k2, v2) == [x \in {k1, k2} |-> IF x = k1 THEN v1 ELSE v2]

\* s1 in s2 for two Python strings: substring test
IsSubstring(k, s) ==
    \E i \in 1..(Len(s) - Len(k) + 1) : SubSeq(s, i, i + Len(k) - 1) = k

\* Python's `key in v` for a value produced by json.loads: membership of a
\* key for a dict, of an element for a list, substring for a str, and
\* TypeError for None, bool, int.
PyIn(key, v) ==
    CASE v.t = "obj" -> [raises |-> FALSE, val |-> key \in DOMAIN v.m]
      [] v.t = "list" -> [raises |-> FALSE,
                          val |-> \E i \in 1..Len(v.l) : v.l[i] = JStr(key)]
      [] v.t = "str" -> [raises |-> FALSE, val |-> IsSubstring(key, v.s)]
      [] OTHER -> [raises |-> TRUE, val |-> FALSE]

\* Python truthiness of a JSON value (`not x`)
Truthy(v) ==
    CASE v.t = "none" -> FALSE
      [] v.t = "null" -> FALSE
      [] v.t = "bool" -> v.b
      [] v.t = "num" -> v.k # 0
      [] v.t = "str" -> v.s # ""
      [] v.t = "list" -> v.l # <<>>
      [] v.t = "obj" -> DOMAIN v.m # {}

\* d.get(key, default): only a dict has .get; anything else raises
\* AttributeError.  json null read out of a dict is Python None.
DictGet(v, key, default) ==
    IF v.t # "obj" THEN [raises |-> TRUE, val |-> PyNone]
    ELSE [raises |-> FALSE,
          val |-> IF key \in DOMAIN v.m THEN v.m[key] ELSE default]

IsNone(v) == v.t \in {"none", "null"}

RECURSIVE Digits(_)
Digits(k) == IF k < 0 THEN 1 + Digits(0 - k)
             ELSE IF k < 10 THEN 1 ELSE 1 + Digits(k \div 10)

RECURSIVE SumOver(_, _)
\* sum of f[x] over the domain of f
SumOver(f, S) ==
    IF S = {} THEN 0
    ELSE LET x == CHOOSE y \in S : TRUE IN f[x] + SumOver(f, S \ {x})

RECURSIVE JsonWidth(_)
\* number of characters of json.dumps(v) with the default separators
\* (", " and ": ") for values without characters that need escaping
JsonWidth(v) ==
    CASE v.t \in {"null", "none"} -> 4
      [] v.t = "bool" -> IF v.b THEN 4 ELSE 5
      [] v.t = "num" -> Digits(v.k)
      [] v.t = "str" -> Len(v.s) + 2
      [] v.t = "list" ->
            LET w == [i \in 1..Len(v.l) |-> JsonWidth(v.l[i])]
            IN  2 + SumOver(w, DOMAIN w)
                  + (IF Len(v.l) > 1 THEN 2 * (Len(v.l) - 1) ELSE 0)
      [] v.t = "obj" ->
            LET w == [k \in DOMAIN v.m |-> Len(k) + 4 + JsonWidth(v.m[k])]
                c == Cardinality(DOMAIN v.m)
            IN  2 + SumOver(w, DOMAIN w) + (IF c > 1 THEN 2 * (c - 1) ELSE 0)

-----------------------------------------------------------------------------
(* Text *)

Chr(ch) == [t |-> "chr", ch |-> ch]
Doc(v) == [t |-> "doc", v |-> v]
LitSym(s) == [t |-> "lit", s |-> s]

SP == Chr(" ")
NL == Chr("\n")

Run(c, n) == [c |-> c, n |-> n]
\* the text of one string literal of the source
Lit(s) == IF s = "" THEN <<>> ELSE <<Run(LitSym(s), Len(s))>>
\* json.dumps(v)
json_dumps(v) == <<Run(Doc(v), JsonWidth(v))>>

IsWs(r) == r.c.t = "chr" /\ r.c.ch \in {" ", "\n"}

RECURSIVE lstrip(_)
lstrip(s) == IF s = <<>> THEN <<>>
             ELSE IF IsWs(Head(s)) THEN lstrip(Tail(s)) ELSE s

RECURSIVE rstrip(_)
rstrip(s) == IF s = <<>> THEN <<>>
             ELSE IF IsWs(s[Len(s)]) THEN rstrip(SubSeq(s, 1, Len(s) - 1))
             ELSE s

\* str.strip()
strip(s) == rstrip(lstrip(s))

RECURSIVE TextLen(_)
\* len(s)
TextLen(s) == IF s = <<>> THEN 0 ELSE Head(s).n + TextLen(Tail(s))

RECURSIVE Slice(_, _)
\* s[:k]
Slice(s, k) ==
    IF s = <<>> \/ k <= 0 THEN <<>>
    ELSE IF Head(s).n <= k THEN <<Head(s)>> \o Slice(Tail(s), k - Head(s).n)
    ELSE <<Run(Head(s).c, k)>>

RECURSIVE Concat(_, _)
\* s + t, keeping adjacent runs of one character merged
Concat(s, t) ==
    IF s = <<>> THEN t
    ELSE IF t = <<>> THEN s
    ELSE LET a == s[Len(s)]
             b == Head(t)
         IN  IF a.c.t = "chr" /\ a.c = b.c
             THEN SubSeq(s, 1, Len(s) - 1) \o <<Run(a.c, a.n + b.n)>> \o Tail(t)
             ELSE s \o t

RECURSIVE SplitAcc(_, _)
\* str.splitlines() of a text that does not end in a line break; cur is the
\* line being accumulated
SplitAcc(s, cur) ==
    IF s = <<>> THEN <<cur>>
    ELSE IF Head(s).c = NL
         THEN <<cur>> \o [i \in 1..(Head(s).n - 1) |-> <<>>]
                      \o SplitAcc(Tail(s), <<>>)
         ELSE SplitAcc(Tail(s), cur \o <<Head(s)>>)

\* str.splitlines(): "" has no lines and a final line break opens no line
splitlines(s) ==
    IF s = <<>> THEN <<>>
    ELSE IF s[Len(s)].c = NL
         THEN LET r == s[Len(s)]
                  body == SubSeq(s, 1, Len(s) - 1)
              IN  IF body = <<>> THEN [i \in 1..r.n |-> <<>>]
                  ELSE SplitAcc(body, <<>>) \o [i \in 1..(r.n - 1) |-> <<>>]
         ELSE SplitAcc(s, <<>>)

\* a whole JSON document: the run holds every character of its serialisation
IsWholeDoc(r) == r.c.t = "doc" /\ r.n = JsonWidth(r.c.v)

\* json.loads(line): surrounding whitespace is ignored; exactly one complete
\* document must remain, anything else raises JSONDecodeError (which carries
\* the text it was raised for)
json_loads(line) ==
    LET core == strip(line)
    IN  IF Len(core) = 1 /\ IsWholeDoc(core[1])
        THEN [raises |-> FALSE, val |-> core[1].c.v, doc |-> line]
        ELSE [raises |-> TRUE, val |-> PyNone, doc |-> line]

-----------------------------------------------------------------------------
(* What the environment can do: the process environment, the launcher and   *)
(* the child process                                                        *)

TOKEN_VAR == "GITHUB_PERSONAL_ACCESS_TOKEN"
Secret == "ghp_secret"

\* os.environ: the variable unset, set to the empty string, or set
Environs == {EmptyMap, One(TOKEN_VAR, ""), One(TOKEN_VAR, Secret)}

\* JSON documents a server can write on one line
D_num == JNum(5)
D_str == JStr("tool_result")
D_list == JList(<<JStr("error")>>)
D_list0 == JList(<<>>)
O_empty == JObj(EmptyMap)
O_user == JObj(Two("login", JStr("bob"), "id", JNum(1)))
O_login == JObj(One("login", JStr("bob")))
P_full == JObj(Two("login", JStr("alice"), "name", JStr("Alice A")))
P_noname == JObj(One("login", JStr("bob")))
T_full == JObj(One("tool_result", JObj(One("result", P_full))))
T_noname == JObj(One("tool_result", JObj(One("result", P_noname))))
T_emptywrap == JObj(One("tool_result", JObj(EmptyMap)))
T_nullwrap == JObj(One("tool_result", JNull))
T_nullres == JObj(One("tool_result", JObj(One("result", JNull))))
T_nores == JObj(One("tool_result", JObj(One("tool_name", JStr("get_me")))))
T_numres == JObj(One("tool_result", JObj(One("result", JNum(5)))))
T_numwrap == JObj(One("tool_result", JNum(5)))
X_msg == JObj(Two("message", JStr("bad creds"), "code", JNum(401)))
X_nomsg == JObj(One("code", JNum(401)))
E_msg == JObj(One("error", X_msg))
E_nomsg == JObj(One("error", X_nomsg))
E_str == JObj(One("error", JStr("boom")))
E_null == JObj(One("error", JNull))
E_both == JObj(Two("error", X_msg, "tool_result", JObj(One("result", P_full))))

Docs == {D_num, D_str, D_list, D_list0, O_empty, O_user, O_login,
         T_full, T_noname, T_emptywrap, T_nullwrap, T_nullres, T_nores,
         T_numres, T_numwrap, E_msg, E_nomsg, E_str, E_null, E_both}

\* the lines a server can write: a document, a padded document, two
\* documents, a document cut short, noise, a long run of noise, a blank
\* line and an empty line
LineTexts ==
    {json_dumps(d) : d \in Docs}
    \cup { <<Run(SP, 2)>> \o json_dumps(T_noname) \o <<Run(SP, 1)>>,
           json_dumps(O_empty) \o <<Run(SP, 1)>> \o json_dumps(E_msg),
           <<Run(Doc(T_full), 10)>>,
           <<Run(Chr("x"), 4)>>,
           <<Run(Chr("x"), 1200)>>,
           <<Run(SP, 1)>>,
           <<>> }

RECURSIVE JoinLines(_)
\* "\n".join(ls)
JoinLines(ls) ==
    IF ls = <<>> THEN <<>>
    ELSE IF Len(ls) = 1 THEN ls[1]
    ELSE Concat(Concat(ls[1], <<Run(NL, 1)>>), JoinLines(Tail(ls)))

\* what the child can have written to its stdout
StdoutTexts ==
    { JoinLines(ls) : ls \in UNION { [1..k -> LineTexts] : k \in 0..MaxLines } }

\* what the child can have written to its stderr: nothing, only a line
\* break, a short message, a long message with surrounding whitespace
StderrTexts ==
    { <<>>,
      <<Run(NL, 1)>>,
      <<Run(Chr("e"), 4)>>,
      <<Run(SP, 1), Run(Chr("e"), 1001), Run(NL, 1)>> }

\* what the child can have written to its stdout when the wait expires
PartialStdoutTexts ==
    { <<>>, <<Run(Chr("x"), 4)>>, <<Run(Doc(T_full), 10)>> }

\* process.returncode of a child that exited: success, failure, killed
ReturnCodes == {0, 1, -9}

\* what subprocess.Popen can raise when the child cannot be started
LaunchErrors == {"FileNotFoundError", "PermissionError", "SubprocessError"}

-----------------------------------------------------------------------------
(* Exceptions *)

\* the classes an exception class derives from (itself included)
Bases(e) ==
    CASE e = "TimeoutExpired" -> {"TimeoutExpired", "SubprocessError", "Exception"}
      [] e = "SubprocessError" -> {"SubprocessError", "Exception"}
      [] e = "JSONDecodeError" -> {"JSONDecodeError", "ValueError", "Exception"}
      [] e = "UnicodeDecodeError" -> {"UnicodeDecodeError", "ValueError", "Exception"}
      [] e = "FileNotFoundError" -> {"FileNotFoundError", "OSError", "Exception"}
      [] e = "PermissionError" -> {"PermissionError", "OSError", "Exception"}
      [] OTHER -> {e, "Exception"}

-----------------------------------------------------------------------------
(* State of one run_agent session *)

VARIABLES
    pc,                      \* the statement run_agent is at
    environ,                 \* os.environ of the host process
    token,                   \* local token
    mcp_command,             \* local mcp_command (argv), a sequence of strings
    request_json,            \* local request_json
    stdout_data,             \* local stdout_data
    stderr_data,             \* local stderr_data
    process,                 \* the child: state, argv and environment it got,
                             \* what it read and wrote, its return code
    candidate_lines,         \* local candidate_lines
    idx,                     \* position of the reversed() iteration
    parsed_response,         \* local parsed_response
    last_json_decode_error,  \* local last_json_decode_error
    response_data,           \* local response_data
    actual_result,           \* local actual_result
    exc,                     \* the exception being propagated, or "none"
    outcome,                 \* what run_agent returned or raised
    popen_calls,             \* number of calls of subprocess.Popen
    stages,                  \* statements executed after communicate returned
    parsed,                  \* the lines handed to json.loads, in order
    mpc,                     \* the statement the __main__ block is at
    args_pr_url,             \* args.pr_url: None or the string given
    cli_token,               \* the __main__ block's token
    pr_details,              \* the __main__ block's pr_details
    gemini_api_key,          \* the __main__ block's gemini_api_key
    review_text,             \* the __main__ block's review_text
    calls,                   \* the functions __main__ called, in order
    printed,                 \* the section headers __main__ printed
    direct_stub,             \* what the patched collaborator of a direct call
                             \* of a PR function answers
    direct_result            \* what that direct call returned or raised

vars == <<pc, environ, token, mcp_command, request_json, stdout_data,
          stderr_data, process, candidate_lines, idx, parsed_response,
          last_json_decode_error, response_data, actual_result, exc, outcome,
          popen_calls, stages, parsed,
          mpc, args_pr_url, cli_token, pr_details, gemini_api_key,
          review_text, calls, printed, direct_stub, direct_result>>

\* the state of a direct call of one of the PR functions
directvars == <<direct_stub, direct_result>>

\* the state of the __main__ block
mainvars == <<mpc, args_pr_url, cli_token, pr_details, gemini_api_key,
              review_text, calls, printed>>

\* the state of a run_agent session
sessionvars == <<pc, environ, token, mcp_command, request_json, stdout_data,
                 stderr_data, process, candidate_lines, idx, parsed_response,
                 last_json_decode_error, response_data, actual_result, exc,
                 outcome, popen_calls, stages, parsed>>

NoProcess == [state |-> "none", argv |-> <<>>, env |-> EmptyMap,
              stdin |-> <<>>, stdout |-> <<>>, stderr |-> <<>>,
              returncode |-> PyNone, timeout |-> 0]

NoOutcome == [kind |-> "none"]

Init ==
    /\ pc = "get_token"
    /\ environ \in Environs
    /\ token = PyNone
    /\ mcp_command = <<>>
    /\ request_json = <<>>
    /\ stdout_data = <<>>
    /\ stderr_data = <<>>
    /\ process = NoProcess
    /\ candidate_lines = <<>>
    /\ idx = 0
    /\ parsed_response = PyNone
    /\ last_json_decode_error = PyNone
    /\ response_data = PyNone
    /\ actual_result = PyNone
    /\ exc = "none"
    /\ outcome = NoOutcome
    /\ popen_calls = 0
    /\ stages = {}
    /\ parsed = <<>>
    /\ mpc = "imported"
    /\ args_pr_url = PyNone
    /\ cli_token = PyNone
    /\ pr_details = PyNone
    /\ gemini_api_key = PyNone
    /\ review_text = PyNone
    /\ calls = <<>>
    /\ printed = <<>>
    /\ direct_stub = PyNone
    /\ direct_result = PyNone

\* os.environ.get(name)
environ_get(env, name) == IF name \in DOMAIN env THEN JStr(env[name]) ELSE PyNone

\* the check written as `if token is None`: an empty token passes
TokenMissing_NoneOnly(tok) == tok = PyNone

\* `if not token` (line 246)
TokenMissing(tok) == ~Truthy(tok)

\* return of a value: the session is over
Return(o) == /\ pc' = "done"
             /\ outcome' = o

\* an exception raised inside the try block: control goes to the handlers
Raise(e) == /\ pc' = "except"
            /\ exc' = e

\* lines 245-247
GetToken ==
    /\ pc = "get_token"
    /\ token' = environ_get(environ, TOKEN_VAR)
    /\ IF TokenMissing(token')
       THEN Return([kind |-> "raised", type |-> "ValueError"])
       ELSE pc' = "build" /\ UNCHANGED outcome
    /\ UNCHANGED <<environ, mcp_command, request_json, stdout_data,
                   stderr_data, process, candidate_lines, idx,
                   parsed_response, last_json_decode_error, response_data,
                   actual_result, exc, popen_calls, stages, parsed>>
    /\ UNCHANGED mainvars
    /\ UNCHANGED directvars

\* lines 251-255: the argument vector
McpCommand(tok) ==
    <<"docker", "run", "-i", "--rm",
      "-e", "GITHUB_PERSONAL_ACCESS_TOKEN=" \o tok,
      "ghcr.io/github/github-mcp-server">>

\* lines 259-265: the request payload
RequestPayload ==
    JObj(Two("mcp_version", JStr("0.1.0"),
             "tool_invocation",
             JObj(Two("tool_name", JStr("get_me"),
                      "arguments", JObj(EmptyMap)))))

\* lines 251-270
Build ==
    /\ pc = "build"
    /\ mcp_command' = McpCommand(token.s)
    /\ request_json' = Concat(json_dumps(RequestPayload), <<Run(NL, 1)>>)
    /\ stdout_data' = <<>>
    /\ stderr_data' = <<>>
    /\ pc' = "popen"
    /\ UNCHANGED <<environ, token, process, candidate_lines, idx,
                   parsed_response, last_json_decode_error, response_data,
                   actual_result, exc, outcome, popen_calls, stages, parsed>>
    /\ UNCHANGED mainvars
    /\ UNCHANGED directvars

\* lines 275-281: subprocess.Popen(mcp_command, stdin=PIPE, stdout=PIPE,
\* stderr=PIPE, text=True).  No env= is given, so the child inherits
\* os.environ.  The launch can fail (runtime missing, not executable).
Popen ==
    /\ pc = "popen"
    /\ popen_calls' = popen_calls + 1
    /\ \/ /\ process' = [NoProcess EXCEPT !.state = "running",
                                          !.argv = mcp_command,
                                          !.env = environ]
          /\ pc' = "communicate"
          /\ UNCHANGED exc
       \/ /\ \E e \in LaunchErrors : Raise(e)
          /\ UNCHANGED process
    /\ UNCHANGED <<environ, token, mcp_command, request_json, stdout_data,
                   stderr_data, candidate_lines, idx, parsed_response,
                   last_json_decode_error, response_data, actual_result,
                   outcome, stages, parsed>>
    /\ UNCHANGED mainvars
    /\ UNCHANGED directvars

COMMUNICATE_TIMEOUT == 60

\* line 284: process.communicate(input=request_json, timeout=60).
\* The request is written to the child's stdin and stdin is closed; then
\*  - the child exits in time: it is waited for (reaped), its whole output
\*    is decoded and assigned to stdout_data, stderr_data;
\*  - the child writes bytes that are not UTF-8: it is waited for, then
\*    decoding raises UnicodeDecodeError and nothing is assigned;
\*  - the child is still running after the timeout: TimeoutExpired is
\*    raised, nothing is assigned, and the child is neither killed nor
\*    waited for (communicate leaves that to its caller).
Communicate ==
    /\ pc = "communicate"
    /\ \/ \E out \in StdoutTexts, err \in StderrTexts, rc \in ReturnCodes :
            /\ process' = [process EXCEPT !.state = "reaped",
                                          !.stdin = Concat(@, request_json),
                                          !.stdout = out,
                                          !.stderr = err,
                                          !.returncode = JNum(rc),
                                          !.timeout = COMMUNICATE_TIMEOUT]
            /\ stdout_data' = out
            /\ stderr_data' = err
            /\ pc' = "check_returncode"
            /\ UNCHANGED exc
       \/ \E rc \in ReturnCodes :
            /\ process' = [process EXCEPT !.state = "reaped",
                                          !.stdin = Concat(@, request_json),
                                          !.returncode = JNum(rc),
                                          !.timeout = COMMUNICATE_TIMEOUT]
            /\ Raise("UnicodeDecodeError")
            /\ UNCHANGED <<stdout_data, stderr_data>>
       \/ \E out \in PartialStdoutTexts, err \in StderrTexts :
            /\ process' = [process EXCEPT !.stdin = Concat(@, request_json),
                                          !.stdout = out,
                                          !.stderr = err,
                                          !.timeout = COMMUNICATE_TIMEOUT]
            /\ Raise("TimeoutExpired")
            /\ UNCHANGED <<stdout_data, stderr_data>>
    /\ UNCHANGED <<environ, token, mcp_command, request_json,
                   candidate_lines, idx, parsed_response,
                   last_json_decode_error, response_data, actual_result,
                   outcome, popen_calls, stages, parsed>>
    /\ UNCHANGED mainvars
    /\ UNCHANGED directvars

\* the preference inverted: stdout first, stderr as the fallback
ProcessErrorMessage_StdoutFirst(out, err) ==
    LET error_message ==
            IF strip(out) # <<>> THEN strip(out)
            ELSE IF strip(err) # <<>> THEN strip(err)
            ELSE Lit("Unknown error from MCP server process.")
    IN  Slice(error_message, 1000)

\* lines 288-292: the message of a failed server process
ProcessErrorMessage(out, err) ==
    LET error_message ==
            IF strip(err) # <<>> THEN strip(err)
            ELSE IF strip(out) # <<>> THEN strip(out)
            ELSE Lit("Unknown error from MCP server process.")
    IN  Slice(error_message, 1000)

\* the exit code looked at only when the server wrote nothing to stdout
CheckReturnCode_OutputFirst ==
    /\ pc = "check_returncode"
    /\ stages' = stages \cup {"check_returncode"}
    /\ IF process.returncode.k # 0 /\ strip(stdout_data) = <<>>
       THEN Return([kind |-> "ProcessExit",
                    returncode |-> process.returncode.k,
                    message |-> ProcessErrorMessage(stdout_data, stderr_data)])
       ELSE pc' = "check_stdout" /\ UNCHANGED outcome
    /\ UNCHANGED <<environ, token, mcp_command, request_json, stdout_data,
                   stderr_data, process, candidate_lines, idx,
                   parsed_response, last_json_decode_error, response_data,
                   actual_result, exc, popen_calls, parsed>>
    /\ UNCHANGED mainvars
    /\ UNCHANGED directvars

\* lines 286-292
CheckReturnCode ==
    /\ pc = "check_returncode"
    /\ stages' = stages \cup {"check_returncode"}
    /\ IF process.returncode.k # 0
       THEN Return([kind |-> "ProcessExit",
                    returncode |-> process.returncode.k,
                    message |-> ProcessErrorMessage(stdout_data, stderr_data)])
       ELSE pc' = "check_stdout" /\ UNCHANGED outcome
    /\ UNCHANGED <<environ, token, mcp_command, request_json, stdout_data,
                   stderr_data, process, candidate_lines, idx,
                   parsed_response, last_json_decode_error, response_data,
                   actual_result, exc, popen_calls, parsed>>
    /\ UNCHANGED mainvars
    /\ UNCHANGED directvars

\* the check written as `if not stdout_data`: whitespace counts as output
StdoutIsEmpty_NoStrip(out) == out = <<>>

\* line 294: `if not stdout_data.strip()`
StdoutIsEmpty(out) == strip(out) = <<>>

\* lines 296-297: what is reported of stderr when stdout is empty
EmptyResponseInfo(err) ==
    LET error_info == IF strip(err) # <<>> THEN strip(err)
                      ELSE Lit("No error message on stderr.")
    IN  Slice(error_info, 1000)

\* lines 294-297
CheckStdout ==
    /\ pc = "check_stdout"
    /\ stages' = stages \cup {"check_stdout"}
    /\ IF StdoutIsEmpty(stdout_data)
       THEN Return([kind |-> "EmptyResponse",
                    stderr |-> EmptyResponseInfo(stderr_data)])
       ELSE pc' = "split" /\ UNCHANGED outcome
    /\ UNCHANGED <<environ, token, mcp_command, request_json, stdout_data,
                   stderr_data, process, candidate_lines, idx,
                   parsed_response, last_json_decode_error, response_data,
                   actual_result, exc, popen_calls, parsed>>
    /\ UNCHANGED mainvars
    /\ UNCHANGED directvars

\* lines 302-308: the candidate lines; reversed() starts at the last one
Split ==
    /\ pc = "split"
    /\ stages' = stages \cup {"split"}
    /\ parsed_response' = PyNone
    /\ last_json_decode_error' = PyNone
    /\ candidate_lines' = splitlines(strip(stdout_data))
    /\ idx' = Len(candidate_lines')
    /\ pc' = "scan"
    /\ UNCHANGED <<environ, token, mcp_command, request_json, stdout_data,
                   stderr_data, process, response_data, actual_result, exc,
                   outcome, popen_calls, parsed>>
    /\ UNCHANGED mainvars
    /\ UNCHANGED directvars

\* the test without its second operand: only `tool_result` marks a record
IsTagged_ToolResultOnly(v) == PyIn("tool_result", v)

\* line 313: `"tool_result" in current_json or "error" in current_json`
IsTagged(v) ==
    LET a == PyIn("tool_result", v)
    IN  IF a.raises \/ a.val THEN a ELSE PyIn("error", v)

\* every failure overwrites the stored one: the failure kept is the one of
\* the earliest line of the output
RecordDecodeError_KeepLatest(prev, e) == e

\* lines 319-320: only the first decode error met in the scan is stored
RecordDecodeError(prev, e) == IF prev = PyNone THEN e ELSE prev

\* lines 316-317: only the first untagged JSON value met in the scan is kept
RecordFallback(prev, v) == IF prev = PyNone THEN v ELSE prev

\* lines 308-320: one iteration of the scan, or its end
ScanLine ==
    /\ pc = "scan"
    /\ stages' = stages \cup {"scan"}
    /\ IF idx = 0
       THEN /\ pc' = "check_parsed"
            /\ UNCHANGED <<idx, parsed_response, last_json_decode_error,
                           exc, parsed>>
       ELSE LET line == candidate_lines[idx] IN
            IF strip(line) = <<>>
            THEN /\ idx' = idx - 1
                 /\ UNCHANGED <<pc, parsed_response, last_json_decode_error,
                                exc, parsed>>
            ELSE LET r == json_loads(line) IN
                 /\ parsed' = Append(parsed, idx)
                 /\ IF r.raises
                    THEN /\ last_json_decode_error' =
                               RecordDecodeError(last_json_decode_error,
                                   [t |-> "JSONDecodeError", doc |-> r.doc])
                         /\ idx' = idx - 1
                         /\ UNCHANGED <<pc, parsed_response, exc>>
                    ELSE LET tagged == IsTagged(r.val) IN
                         IF tagged.raises
                         THEN /\ Raise("TypeError")
                              /\ UNCHANGED <<idx, parsed_response,
                                             last_json_decode_error>>
                         ELSE IF tagged.val
                         THEN /\ parsed_response' = r.val
                              /\ pc' = "check_parsed"
                              /\ UNCHANGED <<idx, last_json_decode_error, exc>>
                         ELSE /\ parsed_response' =
                                    RecordFallback(parsed_response, r.val)
                              /\ idx' = idx - 1
                              /\ UNCHANGED <<pc, last_json_decode_error, exc>>
    /\ UNCHANGED <<environ, token, mcp_command, request_json, stdout_data,
                   stderr_data, process, candidate_lines, response_data,
                   actual_result, outcome, popen_calls>>
    /\ UNCHANGED mainvars
    /\ UNCHANGED directvars

\* lines 323-326: no line of stdout gave a JSON value
NoParsableOutcome(out, err) ==
    [kind |-> "NoParsableResponse",
     decode_error |-> err,
     raw |-> Slice(strip(out), 500)]

\* lines 322-328
CheckParsed ==
    /\ pc = "check_parsed"
    /\ stages' = stages \cup {"check_parsed"}
    /\ IF parsed_response = PyNone
       THEN /\ Return(NoParsableOutcome(stdout_data, last_json_decode_error))
            /\ UNCHANGED response_data
       ELSE /\ response_data' = parsed_response
            /\ pc' = "check_error"
            /\ UNCHANGED outcome
    /\ UNCHANGED <<environ, token, mcp_command, request_json, stdout_data,
                   stderr_data, process, candidate_lines, idx,
                   parsed_response, last_json_decode_error, actual_result,
                   exc, popen_calls, parsed>>
    /\ UNCHANGED mainvars
    /\ UNCHANGED directvars

\* lines 331-333: a record with an `error` key is a tool error
CheckError ==
    /\ pc = "check_error"
    /\ stages' = stages \cup {"check_error"}
    /\ LET has == PyIn("error", response_data) IN
       IF has.raises THEN Raise("TypeError") /\ UNCHANGED outcome
       ELSE IF ~has.val THEN pc' = "unwrap" /\ UNCHANGED <<outcome, exc>>
       ELSE LET error_details == DictGet(response_data, "error", JObj(EmptyMap)) IN
            IF error_details.raises
            THEN Raise("AttributeError") /\ UNCHANGED outcome
            ELSE LET message == DictGet(error_details.val, "message",
                                        JStr("Unknown MCP error")) IN
                 IF message.raises
                 THEN Raise("AttributeError") /\ UNCHANGED outcome
                 ELSE /\ Return([kind |-> "ToolError",
                                 message |-> message.val,
                                 details |-> Slice(json_dumps(error_details.val), 500)])
                      /\ UNCHANGED exc
    /\ UNCHANGED <<environ, token, mcp_command, request_json, stdout_data,
                   stderr_data, process, candidate_lines, idx,
                   parsed_response, last_json_decode_error, response_data,
                   actual_result, popen_calls, parsed>>
    /\ UNCHANGED mainvars
    /\ UNCHANGED directvars

\* the test without its second operand: `login` alone is enough
LooksLikeUser_LoginOnly(v) == PyIn("login", v).val

\* line 338: the record itself looks like user data
LooksLikeUser(v) == PyIn("login", v).val /\ PyIn("id", v).val

\* lines 336-345: find the payload
Unwrap ==
    /\ pc = "unwrap"
    /\ stages' = stages \cup {"unwrap"}
    /\ LET tool_result_wrapper == DictGet(response_data, "tool_result", PyNone) IN
       IF tool_result_wrapper.raises
       THEN Raise("AttributeError") /\ UNCHANGED <<outcome, actual_result>>
       ELSE IF ~Truthy(tool_result_wrapper.val)
       THEN IF LooksLikeUser(response_data)
            THEN /\ actual_result' = response_data
                 /\ pc' = "format"
                 /\ UNCHANGED <<outcome, exc>>
            ELSE /\ Return([kind |-> "UnexpectedShape",
                            response |-> Slice(json_dumps(response_data), 500)])
                 /\ UNCHANGED <<actual_result, exc>>
       ELSE LET result == DictGet(tool_result_wrapper.val, "result", PyNone) IN
            IF result.raises
            THEN Raise("AttributeError") /\ UNCHANGED <<outcome, actual_result>>
            ELSE IF IsNone(result.val)
            THEN /\ Return([kind |-> "MissingResult",
                            tool_result |->
                               Slice(json_dumps(tool_result_wrapper.val), 500)])
                 /\ UNCHANGED <<actual_result, exc>>
            ELSE /\ actual_result' = result.val
                 /\ pc' = "format"
                 /\ UNCHANGED <<outcome, exc>>
    /\ UNCHANGED <<environ, token, mcp_command, request_json, stdout_data,
                   stderr_data, process, candidate_lines, idx,
                   parsed_response, last_json_decode_error, response_data,
                   popen_calls, parsed>>
    /\ UNCHANGED mainvars
    /\ UNCHANGED directvars

\* the read written without its default: an absent key gives None
UserField_NoDefault(payload, key) == DictGet(payload, key, PyNone)

\* lines 347-348: actual_result.get(key, "N/A")
UserField(payload, key) == DictGet(payload, key, JStr("N/A"))

\* lines 347-350: the greeting
Format ==
    /\ pc = "format"
    /\ stages' = stages \cup {"format"}
    /\ LET user_login == UserField(actual_result, "login")
           user_name == UserField(actual_result, "name")
       IN  IF user_login.raises \/ user_name.raises
           THEN Raise("AttributeError") /\ UNCHANGED outcome
           ELSE /\ Return([kind |-> "Success",
                           login |-> user_login.val,
                           name |-> user_name.val])
                /\ UNCHANGED exc
    /\ UNCHANGED <<environ, token, mcp_command, request_json, stdout_data,
                   stderr_data, process, candidate_lines, idx,
                   parsed_response, last_json_decode_error, response_data,
                   actual_result, popen_calls, parsed>>
    /\ UNCHANGED mainvars
    /\ UNCHANGED directvars

\* lines 352, 355, 357, 360: the except clauses, in order
ExceptClauses == <<"TimeoutExpired", "SubprocessError", "JSONDecodeError", "Exception">>

\* the clauses tried with SubprocessError ahead of its subclass
HandlerFor_SubprocessFirst(e) ==
    IF "SubprocessError" \in Bases(e) THEN "SubprocessError"
    ELSE IF "JSONDecodeError" \in Bases(e) THEN "JSONDecodeError"
    ELSE "Exception"

\* the first except clause that matches the class of e
HandlerFor(e) ==
    LET i == CHOOSE i \in 1..Len(ExceptClauses) :
                 /\ ExceptClauses[i] \in Bases(e)
                 /\ \A j \in 1..(i - 1) : ExceptClauses[j] \notin Bases(e)
    IN  ExceptClauses[i]

\* line 353: what is reported of stderr after a timeout
TimeoutStderr(err) ==
    IF err # <<>> THEN Slice(strip(err), 500) ELSE Lit("N/A")

\* lines 358: what is reported of stdout after an unexpected decode error
DecodeRaw(out) ==
    IF out # <<>> THEN Slice(strip(out), 500) ELSE Lit("No stdout data captured.")

\* lines 352-361: what each handler returns
HandlerOutcome(e, out, err) ==
    LET h == HandlerFor(e) IN
    CASE h = "TimeoutExpired" ->
            [kind |-> "TimedOut", seconds |-> 60, stderr |-> TimeoutStderr(err)]
      [] h = "SubprocessError" ->
            [kind |-> "LaunchFailure", error |-> e]
      [] h = "JSONDecodeError" ->
            [kind |-> "UnexpectedDecodeError", error |-> e, raw |-> DecodeRaw(out)]
      [] OTHER ->
            [kind |-> "UnexpectedError", type |-> e]

\* a handler that starts the exchange again after a timeout
Except_RetryOnTimeout ==
    /\ pc = "except"
    /\ IF exc = "TimeoutExpired"
       THEN pc' = "popen" /\ UNCHANGED outcome
       ELSE Return(HandlerOutcome(exc, stdout_data, stderr_data))
    /\ UNCHANGED <<environ, token, mcp_command, request_json, stdout_data,
                   stderr_data, process, candidate_lines, idx,
                   parsed_response, last_json_decode_error, response_data,
                   actual_result, exc, popen_calls, stages, parsed>>
    /\ UNCHANGED mainvars
    /\ UNCHANGED directvars

\* lines 352-361
Except ==
    /\ pc = "except"
    /\ Return(HandlerOutcome(exc, stdout_data, stderr_data))
    /\ UNCHANGED <<environ, token, mcp_command, request_json, stdout_data,
                   stderr_data, process, candidate_lines, idx,
                   parsed_response, last_json_decode_error, response_data,
                   actual_result, exc, popen_calls, stages, parsed>>
    /\ UNCHANGED mainvars
    /\ UNCHANGED directvars

Next ==
    \/ GetToken
    \/ Build
    \/ Popen
    \/ Communicate
    \/ CheckReturnCode
    \/ CheckStdout
    \/ Split
    \/ ScanLine
    \/ CheckParsed
    \/ CheckError
    \/ Unwrap
    \/ Format
    \/ Except

Spec == Init /\ [][Next]_vars

-----------------------------------------------------------------------------
(* Python str operations used by the pull-request functions *)

\* s.startswith(p)
startswith(s, p) == Len(s) >= Len(p) /\ SubSeq(s, 1, Len(p)) = p

RECURSIVE SplitFrom(_, _, _)
SplitFrom(s, sep, cur) ==
    IF s = "" THEN <<cur>>
    ELSE IF SubSeq(s, 1, 1) = sep
         THEN <<cur>> \o SplitFrom(SubSeq(s, 2, Len(s)), sep, "")
         ELSE SplitFrom(SubSeq(s, 2, Len(s)), sep, cur \o SubSeq(s, 1, 1))

\* s.split(sep) for a one-character separator
split(s, sep) == SplitFrom(s, sep, "")

DigitChars == {"0", "1", "2", "3", "4", "5", "6", "7", "8", "9"}

\* s.isdigit()
isdigit(s) == s # "" /\ \A i \in 1..Len(s) : SubSeq(s, i, i) \in DigitChars

\* s[:k]
StrSlice(s, k) == IF Len(s) <= k THEN s ELSE SubSeq(s, 1, k)

\* str(k) for a natural number
RECURSIVE str_int(_)
str_int(k) == IF k < 10 THEN SubSeq("0123456789", k + 1, k + 1)
              ELSE str_int(k \div 10) \o str_int(k % 10)

\* an exception object: its class and str(e)
Exc(type, msg) == [type |-> type, msg |-> msg]

-----------------------------------------------------------------------------
(* The HTTP collaborator (requests) *)

\* a response: status code, the JSON document of the body (PyNone when the
\* body is not JSON) and the body text
Resp(status, json, text) ==
    [kind |-> "response", status |-> status, json |-> json, text |-> text]

\* requests raising a RequestException that is not an HTTPError
NetworkError == [kind |-> "network", msg |-> "connection refused"]

\* response.raise_for_status(): HTTPError for 4xx and 5xx
RaisesForStatus(r) == 400 <= r.status /\ r.status < 600

PrData == JObj(Two("title", JStr("Fix bug"), "body", JStr("Fixes #1")))
PrDataNullBody == JObj(Two("title", JStr("Fix bug"), "body", JNull))
PrDataBare == JObj(One("number", JNum(12)))
DiffText == "diff --git a/x.py b/x.py"

\* what the two GETs of get_pr_details can be answered (lines 204, 212)
GetWorlds ==
    {<<Resp(200, PrData, ""), Resp(200, PyNone, DiffText)>>,
     <<Resp(200, PrData, ""), Resp(200, PyNone, "")>>,
     <<Resp(200, PrDataNullBody, ""), Resp(200, PyNone, DiffText)>>,
     <<Resp(200, PrDataBare, ""), Resp(200, PyNone, DiffText)>>,
     <<Resp(200, JList(<<>>), ""), Resp(200, PyNone, DiffText)>>,
     <<Resp(200, PyNone, "<html>"), Resp(200, PyNone, DiffText)>>,
     <<Resp(401, PyNone, "Bad credentials"), Resp(200, PyNone, DiffText)>>,
     <<Resp(404, PyNone, "Not Found"), Resp(200, PyNone, DiffText)>>,
     <<Resp(200, PrData, ""), Resp(403, PyNone, "rate limit")>>,
     <<NetworkError, Resp(200, PyNone, DiffText)>>,
     <<Resp(200, PrData, ""), NetworkError>>}

\* what the POST of post_pr_comment can be answered (line 108)
PostWorlds ==
    {Resp(201, JObj(One("id", JNum(1))), ""),
     Resp(200, JObj(EmptyMap), ""),
     Resp(401, JObj(One("message", JStr("Bad credentials"))), "Bad credentials"),
     Resp(403, JObj(One("message", JStr("Forbidden"))), "Forbidden"),
     Resp(404, JObj(One("message", JStr("Not Found"))), "Not Found"),
     Resp(500, PyNone, "<html>"),
     NetworkError}

-----------------------------------------------------------------------------
(* get_pr_details, lines 146-239 *)

SIMULATE_PR_FETCH == "SIMULATE_SUCCESSFUL_PR_FETCH"

Details(title, body, diff) ==
    JObj([k \in {"title", "body", "diff"} |->
             IF k = "title" THEN title ELSE IF k = "body" THEN body ELSE diff])

\* lines 153-165 (the diff abbreviated to its first line)
SimulatedDetails ==
    Details(JStr("Test PR Title"), JStr("This is the body of the test PR."),
            JStr("diff --git a/test.py b/test.py"))

\* the condition of lines 177-183 and 86-92; parts[i] is parts[i+1] here
UrlAccepted(pr_url) ==
    LET parts == split(pr_url, "/") IN
    /\ startswith(pr_url, "https://")
    /\ Len(parts) >= 7
    /\ IsSubstring(".", parts[3])
    /\ parts[6] = "pull"
    /\ isdigit(parts[7])

\* lines 185-191: the ValueError raised for a rejected URL
UrlError(pr_url) ==
    LET parts == split(pr_url, "/") IN
    IF ~startswith(pr_url, "https://")
       \/ ~IsSubstring("github.com", IF Len(parts) >= 3 THEN parts[3] ELSE "")
    THEN Exc("ValueError", "Invalid PR URL: Does not seem to be a valid HTTPS GitHub URL. URL: '" \o pr_url \o "'")
    ELSE IF Len(parts) < 7 \/ parts[6] # "pull" \/ ~isdigit(parts[7])
    THEN Exc("ValueError", "Invalid PR URL structure: Expected 'https://<host>/owner/repo/pull/number'. URL: '" \o pr_url \o "'")
    ELSE Exc("ValueError", "Invalid PR URL format. URL: '" \o pr_url \o "'")

\* line 197
PullsApiUrl(pr_url) ==
    LET parts == split(pr_url, "/") IN
    "https://api.github.com/repos/" \o parts[4] \o "/" \o parts[5]
        \o "/pulls/" \o parts[7]

\* lines 223-230
HttpErrorMessage(r) ==
    "GitHub API request failed (HTTP " \o str_int(r.status) \o "): "
        \o StrSlice(r.text, 500)
        \o (IF r.status = 401 THEN " (Check your GITHUB_PERSONAL_ACCESS_TOKEN)"
            ELSE IF r.status = 403
                 THEN " (Forbidden - check token permissions or rate limits)"
            ELSE IF r.status = 404
                 THEN " (Not Found - check owner, repo, or PR number)"
            ELSE "")

Raised(e, reqs) == [raises |-> TRUE, exc |-> e, val |-> PyNone, requests |-> reqs]
Returned(v, reqs) == [raises |-> FALSE, exc |-> Exc("none", ""), val |-> v,
                      requests |-> reqs]

\* one request of get_pr_details: the URL and the Accept header
GetRequest(url, accept) == [method |-> "GET", url |-> url, accept |-> accept]

\* the failure a GET answered r ends in, if any (lines 204-205, 212-213 and
\* the handlers of lines 221-234)
GetFailure(r) ==
    IF r.kind = "network"
    THEN Exc("ValueError", "GitHub API request failed due to a network issue: " \o r.msg)
    ELSE IF RaisesForStatus(r) THEN Exc("ValueError", HttpErrorMessage(r))
    ELSE Exc("none", "")

\* get_pr_details(pr_url, token) when the two GETs are answered by world
get_pr_details(pr_url, tok, world) ==
    IF tok = SIMULATE_PR_FETCH THEN Returned(SimulatedDetails, <<>>)
    ELSE IF ~UrlAccepted(pr_url) THEN Raised(UrlError(pr_url), <<>>)
    ELSE
      LET api_url == PullsApiUrl(pr_url)
          r1 == world[1]
          r2 == world[2]
          req1 == GetRequest(api_url, "application/vnd.github.v3+json")
          req2 == GetRequest(api_url, "application/vnd.github.v3.diff")
      IN
      IF GetFailure(r1).type # "none" THEN Raised(GetFailure(r1), <<req1>>)
      \* response.json() of a body that is not JSON: requests' JSONDecodeError
      \* is a RequestException
      ELSE IF r1.json = PyNone
      THEN Raised(Exc("ValueError", "GitHub API request failed due to a network issue: Expecting value"), <<req1>>)
      \* pr_data.get on a document that is not an object: AttributeError,
      \* turned into RuntimeError at line 239
      ELSE IF r1.json.t # "obj"
      THEN Raised(Exc("RuntimeError", "An unexpected error occurred while fetching PR details: 'list' object has no attribute 'get'"), <<req1>>)
      ELSE IF GetFailure(r2).type # "none"
      THEN Raised(GetFailure(r2), <<req1, req2>>)
      ELSE
        LET title == DictGet(r1.json, "title", JStr("N/A")).val
            body == DictGet(r1.json, "body", JStr("")).val
        IN Returned(Details(title,
                            IF IsNone(body) THEN JStr("") ELSE body,
                            JStr(r2.text)),
                    <<req1, req2>>)

-----------------------------------------------------------------------------
(* get_gemini_review, lines 8-77 *)

SIMULATE_GEMINI_REVIEW == "SIMULATE_SUCCESSFUL_GEMINI_REVIEW"

SkipMessage == "Skipping review as the PR diff is empty or not provided."

\* how the google.generativeai SDK behaves in one call: genai.configure or
\* generate_content raises e, or generate_content returns a response with
\* the given text and number of parts
SdkRaises(at, e) == [at |-> at, e |-> e, text |-> "", parts |-> 0]
SdkAnswers(text, parts) ==
    [at |-> "none", e |-> Exc("none", ""), text |-> text, parts |-> parts]

GeminiApis ==
    {SdkAnswers("Looks good. Consider a test for the new branch.", 1),
     SdkAnswers("", 0),
     SdkAnswers("", 2),
     SdkRaises("configure", Exc("DefaultCredentialsError", "no credentials")),
     SdkRaises("generate", Exc("InvalidArgument", "400 API key not valid. Please pass a valid API key.")),
     SdkRaises("generate", Exc("ClientError", "API_KEY_INVALID")),
     SdkRaises("generate", Exc("BlockedPromptException", "blocked")),
     SdkRaises("generate", Exc("Forbidden", "403 PermissionDenied")),
     SdkRaises("generate", Exc("ResourceExhausted", "429 quota exceeded"))}

\* lines 60-77: the string returned for an exception
GeminiErrorText(e) ==
    IF \/ IsSubstring("API_KEY_INVALID", e.msg)
       \/ IsSubstring("API key not valid", e.msg)
       \/ e.type = "BlockedPromptException"
    THEN "Error with Gemini API: Potentially an invalid API key or a problem with the prompt/content. Details: " \o e.msg
    ELSE IF IsSubstring("PermissionDenied", e.msg)
            \/ IsSubstring("Unauthenticated", e.msg)
    THEN "Error with Gemini API: Permission denied or unauthenticated. This is likely an issue with the API key. Details: " \o e.msg
    ELSE "Error during Gemini API call: " \o e.type \o " - " \o e.msg

\* lines 48-55: the string returned for a response without text
EmptyResponseText(parts) ==
    IF parts = 0
    THEN "Gemini API returned an empty response with no parts."
    ELSE "Gemini API returned a response, but the primary text content was empty. Parts available: " \o str_int(parts)

\* the value returned, whether it is a review (lines 15 and 58) rather than a
\* message about a failure, and the number of generate_content calls
Review(text, genuine, n) ==
    [text |-> text, genuine |-> genuine, generate_calls |-> n]

\* get_gemini_review(pr_details, api_key) when the SDK behaves as api
get_gemini_review(details, api_key, api) ==
    IF api_key = SIMULATE_GEMINI_REVIEW
    THEN Review("This is a simulated successful Gemini review. Looks good!",
                TRUE, 0)
    ELSE IF api.at = "configure" THEN Review(GeminiErrorText(api.e), FALSE, 0)
    ELSE IF ~Truthy(DictGet(details, "diff", JStr("")).val)
    THEN Review(SkipMessage, FALSE, 0)
    ELSE IF api.at = "generate" THEN Review(GeminiErrorText(api.e), FALSE, 1)
    ELSE IF api.text = "" THEN Review(EmptyResponseText(api.parts), FALSE, 1)
    ELSE Review(api.text, TRUE, 1)

-----------------------------------------------------------------------------
(* post_pr_comment, lines 79-144 *)

\* line 100
CommentsApiUrl(pr_url) ==
    LET parts == split(pr_url, "/") IN
    "https://api.github.com/repos/" \o parts[4] \o "/" \o parts[5]
        \o "/issues/" \o parts[7] \o "/comments"

\* lines 126-131
PostAdvisory(status) ==
    IF status = 401
    THEN " (Check your GITHUB_PERSONAL_ACCESS_TOKEN for necessary permissions)"
    ELSE IF status = 403
    THEN " (Forbidden - check token permissions, PR might be locked, or you might not have write access)"
    ELSE IF status = 404
    THEN " (Not Found - check owner, repo, or PR number; or PR might not be found)"
    ELSE ""

Posted(ok, reqs, advisory) ==
    [val |-> ok, requests |-> reqs, advisory |-> advisory]

\* post_pr_comment(pr_url, comment_body, token) when the POST is answered r
post_pr_comment(pr_url, comment_body, tok, r) ==
    IF ~UrlAccepted(pr_url) THEN Posted(FALSE, <<>>, "")
    ELSE
      LET req == [method |-> "POST", url |-> CommentsApiUrl(pr_url),
                  authorization |-> "token " \o tok,
                  body |-> comment_body, timeout |-> 30]
      IN
      IF r.kind = "network" THEN Posted(FALSE, <<req>>, "")
      ELSE IF r.status = 201 THEN Posted(TRUE, <<req>>, "")
      ELSE IF RaisesForStatus(r)
           THEN Posted(FALSE, <<req>>, PostAdvisory(r.status))
      ELSE Posted(FALSE, <<req>>, "")

-----------------------------------------------------------------------------
(* The __main__ block, lines 363-435 *)

GEMINI_VAR == "GEMINI_API_KEY"

\* os.environ holding the given values; PyNone stands for an unset variable
Env(tok, key) ==
    [n \in {x \in {TOKEN_VAR, GEMINI_VAR} :
               \/ x = TOKEN_VAR /\ tok.t = "str"
               \/ x = GEMINI_VAR /\ key.t = "str"}
       |-> IF n = TOKEN_VAR THEN tok.s ELSE key.s]

TokenValues == {PyNone, JStr(""), JStr(Secret), JStr(SIMULATE_PR_FETCH)}
KeyValues == {PyNone, JStr(""), JStr("AIza_key"), JStr(SIMULATE_GEMINI_REVIEW)}

\* the values of --pr-url: a PR URL, one with a trailing slash, the URL of
\* the tests, a `pulls` URL, and no URL at all
PrUrls ==
    {"https://github.com/o/r/pull/12",
     "https://github.com/o/r/pull/12/",
     "http://github.com/test/repo/pull/1",
     "https://github.com/o/r/pulls/12",
     "not a url"}

\* the command lines and environments of a run: without --pr-url (None) or
\* with an empty one the environments of a session, with a URL every
\* combination of the two credentials
MainInputs ==
    ({PyNone, JStr("")} \X Environs)
    \cup ({JStr(u) : u \in PrUrls}
             \X {Env(t, k) : t \in TokenValues, k \in KeyValues})

\* one call made by the __main__ block and how it ended
Call(fn, result) == [fn |-> fn, result |-> result]

InitMain ==
    /\ mpc = "parse_args"
    /\ \E input \in MainInputs : args_pr_url = input[1] /\ environ = input[2]
    /\ cli_token = PyNone
    /\ pr_details = PyNone
    /\ gemini_api_key = PyNone
    /\ review_text = PyNone
    /\ calls = <<>>
    /\ printed = <<>>
    /\ direct_stub = PyNone
    /\ direct_result = PyNone
    /\ pc = "not_called"
    /\ token = PyNone
    /\ mcp_command = <<>>
    /\ request_json = <<>>
    /\ stdout_data = <<>>
    /\ stderr_data = <<>>
    /\ process = NoProcess
    /\ candidate_lines = <<>>
    /\ idx = 0
    /\ parsed_response = PyNone
    /\ last_json_decode_error = PyNone
    /\ response_data = PyNone
    /\ actual_result = PyNone
    /\ exc = "none"
    /\ outcome = NoOutcome
    /\ popen_calls = 0
    /\ stages = {}
    /\ parsed = <<>>

print(line) == printed' = Append(printed, line)

\* the test written as `if args.pr_url is not None`
PrUrlGiven_NotNone(v) == v # PyNone

\* `if args.pr_url:` (line 368)
PrUrlGiven(v) == Truthy(v)

\* lines 364-369 and 421-424
ParseArgs ==
    /\ mpc = "parse_args"
    /\ IF PrUrlGiven(args_pr_url)
       THEN mpc' = "get_token" /\ print("Processing PR URL")
       ELSE mpc' = "run_agent" /\ print("No PR URL provided")
    /\ UNCHANGED <<args_pr_url, cli_token, pr_details, gemini_api_key,
                   review_text, calls>>
    /\ UNCHANGED sessionvars
    /\ UNCHANGED directvars

\* the test written as `if token is None`
CredentialMissing_NoneOnly(v) == v = PyNone

\* `if not token`, `if not gemini_api_key` (lines 371, 387)
CredentialMissing(v) == ~Truthy(v)

\* lines 370-374
MainGetToken ==
    /\ mpc = "get_token"
    /\ cli_token' = environ_get(environ, TOKEN_VAR)
    /\ IF CredentialMissing(cli_token')
       THEN mpc' = "exit" /\ print("--- Configuration Error ---")
       ELSE mpc' = "get_pr_details" /\ UNCHANGED printed
    /\ UNCHANGED <<args_pr_url, pr_details, gemini_api_key, review_text,
                   calls>>
    /\ UNCHANGED sessionvars
    /\ UNCHANGED directvars

\* lines 414-419: the handlers of the outer try
FetchErrorHeader(e) ==
    IF e.type \in {"ValueError", "RuntimeError"}
    THEN "--- Error Fetching PR Details ---"
    ELSE "--- An Unexpected Error Occurred ---"

\* a fetch whose failure is reported and then ignored
CallGetPrDetails_ContinueOnError ==
    /\ mpc = "get_pr_details"
    /\ \E world \in GetWorlds :
         LET r == get_pr_details(args_pr_url.s, cli_token.s, world) IN
         IF r.raises
         THEN /\ calls' = Append(calls, Call("get_pr_details", "raised"))
              /\ print(FetchErrorHeader(r.exc))
              /\ pr_details' = JObj(EmptyMap)
         ELSE /\ calls' = Append(calls, Call("get_pr_details", "returned"))
              /\ pr_details' = r.val
              /\ print("--- PR Details ---")
    /\ mpc' = "get_key"
    /\ UNCHANGED <<args_pr_url, cli_token, gemini_api_key, review_text>>
    /\ UNCHANGED sessionvars
    /\ UNCHANGED directvars

\* lines 375-383 and 414-419
CallGetPrDetails ==
    /\ mpc = "get_pr_details"
    /\ \E world \in GetWorlds :
         LET r == get_pr_details(args_pr_url.s, cli_token.s, world) IN
         IF r.raises
         THEN /\ calls' = Append(calls, Call("get_pr_details", "raised"))
              /\ print(FetchErrorHeader(r.exc))
              /\ mpc' = "exit"
              /\ UNCHANGED pr_details
         ELSE /\ calls' = Append(calls, Call("get_pr_details", "returned"))
              /\ pr_details' = r.val
              /\ print("--- PR Details ---")
              /\ mpc' = "get_key"
    /\ UNCHANGED <<args_pr_url, cli_token, gemini_api_key, review_text>>
    /\ UNCHANGED sessionvars
    /\ UNCHANGED directvars

\* lines 386-391
MainGetKey ==
    /\ mpc = "get_key"
    /\ gemini_api_key' = environ_get(environ, GEMINI_VAR)
    /\ IF CredentialMissing(gemini_api_key')
       THEN mpc' = "exit" /\ print("--- Gemini Configuration Error ---")
       ELSE mpc' = "get_gemini_review" /\ print("--- Getting Gemini Review ---")
    /\ UNCHANGED <<args_pr_url, cli_token, pr_details, review_text, calls>>
    /\ UNCHANGED sessionvars
    /\ UNCHANGED directvars

\* lines 392-395
CallGetGeminiReview ==
    /\ mpc = "get_gemini_review"
    /\ \E api \in GeminiApis :
         LET r == get_gemini_review(pr_details, gemini_api_key.s, api) IN
         /\ calls' = Append(calls,
                            Call("get_gemini_review",
                                 IF r.genuine THEN "review" ELSE "failure"))
         /\ review_text' = JStr(r.text)
    /\ print("--- Gemini PR Review ---")
    /\ mpc' = "check_review"
    /\ UNCHANGED <<args_pr_url, cli_token, pr_details, gemini_api_key>>
    /\ UNCHANGED sessionvars
    /\ UNCHANGED directvars

\* lines 398-400
ReviewPostable(text) ==
    /\ ~startswith(text, "Error with Gemini API:")
    /\ ~startswith(text, "Gemini API returned an empty response")
    /\ text # "Skipping review as the PR diff is empty or not provided."

\* lines 397-401 and 407-408
CheckReview ==
    /\ mpc = "check_review"
    /\ IF ReviewPostable(review_text.s)
       THEN mpc' = "post_pr_comment"
            /\ print("--- Posting Review to GitHub PR ---")
       ELSE mpc' = "exit" /\ print("Skipping GitHub comment posting")
    /\ UNCHANGED <<args_pr_url, cli_token, pr_details, gemini_api_key,
                   review_text, calls>>
    /\ UNCHANGED sessionvars
    /\ UNCHANGED directvars

\* lines 403-406
CallPostPrComment ==
    /\ mpc = "post_pr_comment"
    /\ \E r \in PostWorlds :
         LET p == post_pr_comment(args_pr_url.s, review_text.s, cli_token.s, r)
         IN IF p.val
            THEN /\ calls' = Append(calls, Call("post_pr_comment", "posted"))
                 /\ print("Successfully posted review comment to the PR.")
            ELSE /\ calls' = Append(calls, Call("post_pr_comment", "not_posted"))
                 /\ print("Failed to post review comment to the PR.")
    /\ mpc' = "exit"
    /\ UNCHANGED <<args_pr_url, cli_token, pr_details, gemini_api_key,
                   review_text>>
    /\ UNCHANGED sessionvars
    /\ UNCHANGED directvars

\* line 427: the call of run_agent starts a session
CallRunAgent ==
    /\ mpc = "run_agent"
    /\ calls' = Append(calls, Call("run_agent", "called"))
    /\ pc' = "get_token"
    /\ mpc' = "in_run_agent"
    /\ UNCHANGED <<args_pr_url, cli_token, pr_details, gemini_api_key,
                   review_text, printed>>
    /\ UNCHANGED <<environ, token, mcp_command, request_json, stdout_data,
                   stderr_data, process, candidate_lines, idx,
                   parsed_response, last_json_decode_error, response_data,
                   actual_result, exc, outcome, popen_calls, stages, parsed>>
    /\ UNCHANGED directvars

\* lines 428-435: the session is over
AfterRunAgent ==
    /\ mpc = "in_run_agent"
    /\ pc = "done"
    /\ IF outcome.kind # "raised" THEN print("--- Agent Result ---")
       ELSE IF "ValueError" \in Bases(outcome.type)
            THEN print("--- Configuration Error ---")
            ELSE print("--- Agent Run Failed ---")
    /\ mpc' = "exit"
    /\ UNCHANGED <<args_pr_url, cli_token, pr_details, gemini_api_key,
                   review_text, calls>>
    /\ UNCHANGED sessionvars
    /\ UNCHANGED directvars

NextMain ==
    \/ ParseArgs
    \/ MainGetToken
    \/ CallGetPrDetails
    \/ MainGetKey
    \/ CallGetGeminiReview
    \/ CheckReview
    \/ CallPostPrComment
    \/ CallRunAgent
    \/ AfterRunAgent
    \/ GetToken
    \/ Build
    \/ Popen
    \/ Communicate
    \/ CheckReturnCode
    \/ CheckStdout
    \/ Split
    \/ ScanLine
    \/ CheckParsed
    \/ CheckError
    \/ Unwrap
    \/ Format
    \/ Except

\* a run of the program from the command line
SpecMain == InitMain /\ [][NextMain]_vars

-----------------------------------------------------------------------------
(* Direct calls of the PR functions, with the collaborator patched *)

\* no run_agent session exists
SessionNotStarted ==
    /\ pc = "not_called"
    /\ environ = EmptyMap
    /\ token = PyNone
    /\ mcp_command = <<>>
    /\ request_json = <<>>
    /\ stdout_data = <<>>
    /\ stderr_data = <<>>
    /\ process = NoProcess
    /\ candidate_lines = <<>>
    /\ idx = 0
    /\ parsed_response = PyNone
    /\ last_json_decode_error = PyNone
    /\ response_data = PyNone
    /\ actual_result = PyNone
    /\ exc = "none"
    /\ outcome = NoOutcome
    /\ popen_calls = 0
    /\ stages = {}
    /\ parsed = <<>>

\* the pr_details arguments: complete, with an empty diff, without a diff,
\* with a null diff, and empty
DetailsInputs ==
    {Details(JStr("T"), JStr("B"), JStr("some diff")),
     Details(JStr("T"), JStr("B"), JStr("")),
     JObj(Two("title", JStr("T"), "body", JStr("B"))),
     Details(JStr("T"), JStr("B"), JNull),
     JObj(EmptyMap)}

\* the api_key arguments
ApiKeyInputs == {"fake_key", "", SIMULATE_GEMINI_REVIEW}

\* the arguments of a direct call of get_gemini_review
InitGetGeminiReview ==
    /\ mpc = "call_get_gemini_review"
    /\ pr_details \in DetailsInputs
    /\ gemini_api_key \in {JStr(k) : k \in ApiKeyInputs}
    /\ args_pr_url = PyNone
    /\ cli_token = PyNone
    /\ review_text = PyNone

\* the pr_url arguments: the URLs of the URL parsing tests, well-formed
\* ones first
UrlInputs ==
    {"https://github.com/owner/repo/pull/123",
     "http://github.com/owner/repo/pull/123",
     "https://www.github.com/owner/repo/pull/123",
     "https://github.com/owner-name/repo-name.with.dots/pull/456/",
     "https://github.com/owner/repo/pulls/123",
     "https://github.com/owner/repo/pull/not_a_number",
     "https://github.com/owner/repo/123",
     "https://example.com/owner/repo/pull/123",
     "ftp://github.com/owner/repo/pull/123",
     "https://github.com/ownerrepo/pull/123",
     "https://github.com/pull/123",
     "just_a_string"}

\* the arguments of a direct call of get_pr_details
InitGetPrDetails ==
    /\ mpc = "call_get_pr_details"
    /\ args_pr_url \in {JStr(u) : u \in UrlInputs}
    /\ cli_token \in {JStr("dummy_token"), JStr(SIMULATE_PR_FETCH)}
    /\ pr_details = PyNone
    /\ gemini_api_key = PyNone
    /\ review_text = PyNone

\* the arguments of a direct call of post_pr_comment; review_text holds
\* comment_body
InitPostPrComment ==
    /\ mpc = "call_post_pr_comment"
    /\ args_pr_url \in {JStr(u) : u \in UrlInputs}
    /\ cli_token = JStr("test_github_token")
    /\ review_text = JStr("Test comment")
    /\ pr_details = PyNone
    /\ gemini_api_key = PyNone

InitDirect ==
    /\ SessionNotStarted
    /\ calls = <<>>
    /\ printed = <<>>
    /\ direct_stub = PyNone
    /\ direct_result = PyNone
    /\ \/ InitGetGeminiReview
       \/ InitGetPrDetails
       \/ InitPostPrComment

\* get_gemini_review(pr_details, gemini_api_key) with the SDK patched
DirectGetGeminiReview ==
    /\ mpc = "call_get_gemini_review"
    /\ \E api \in GeminiApis :
         LET r == get_gemini_review(pr_details, gemini_api_key.s, api) IN
         /\ direct_stub' = api
         /\ direct_result' = r
         /\ calls' = Append(calls,
                            Call("get_gemini_review",
                                 IF r.genuine THEN "review" ELSE "failure"))
    /\ mpc' = "returned"
    /\ UNCHANGED <<args_pr_url, cli_token, pr_details, gemini_api_key,
                   review_text, printed>>
    /\ UNCHANGED sessionvars

\* get_pr_details(pr_url, token) with requests.get patched
DirectGetPrDetails ==
    /\ mpc = "call_get_pr_details"
    /\ \E world \in GetWorlds :
         LET r == get_pr_details(args_pr_url.s, cli_token.s, world) IN
         /\ direct_stub' = world
         /\ direct_result' = r
         /\ calls' = Append(calls,
                            Call("get_pr_details",
                                 IF r.raises THEN "raised" ELSE "returned"))
    /\ mpc' = "returned"
    /\ UNCHANGED <<args_pr_url, cli_token, pr_details, gemini_api_key,
                   review_text, printed>>
    /\ UNCHANGED sessionvars

\* post_pr_comment(pr_url, comment_body, token) with requests.post patched
DirectPostPrComment ==
    /\ mpc = "call_post_pr_comment"
    /\ \E r \in PostWorlds :
         LET p == post_pr_comment(args_pr_url.s, review_text.s, cli_token.s, r)
         IN /\ direct_stub' = r
            /\ direct_result' = p
            /\ calls' = Append(calls,
                               Call("post_pr_comment",
                                    IF p.val THEN "posted" ELSE "not_posted"))
    /\ mpc' = "returned"
    /\ UNCHANGED <<args_pr_url, cli_token, pr_details, gemini_api_key,
                   review_text, printed>>
    /\ UNCHANGED sessionvars

NextDirect ==
    \/ DirectGetGeminiReview
    \/ DirectGetPrDetails
    \/ DirectPostPrComment

\* the PR functions called one at a time, as the unit tests do
SpecDirect == InitDirect /\ [][NextDirect]_vars

-----------------------------------------------------------------------------
(* The response handling of a session whose server exited with code 0 *)

MaxScanLines == 3

\* the lines of such a server: tagged records, untagged records, JSON that
\* is not an object, noise and a blank line
ScanLineTexts ==
    {json_dumps(d) : d \in {T_full, T_noname, E_msg, O_user, O_empty,
                            D_num, D_str}}
    \cup { <<Run(Chr("x"), 4)>>, <<Run(SP, 1)>> }

ScanStdoutTexts ==
    { JoinLines(ls) :
        ls \in UNION { [1..k -> ScanLineTexts] : k \in 1..MaxScanLines } }

\* the state in which communicate() has just returned (line 284): the token
\* was read, the child was launched, got the request, wrote its stdout and
\* exited with code 0
InitScan ==
    /\ pc = "check_returncode"
    /\ environ = One(TOKEN_VAR, Secret)
    /\ token = JStr(Secret)
    /\ mcp_command = McpCommand(Secret)
    /\ request_json = Concat(json_dumps(RequestPayload), <<Run(NL, 1)>>)
    /\ stdout_data \in ScanStdoutTexts
    /\ stderr_data = <<>>
    /\ process = [state |-> "reaped", argv |-> mcp_command, env |-> environ,
                  stdin |-> request_json, stdout |-> stdout_data,
                  stderr |-> <<>>, returncode |-> JNum(0),
                  timeout |-> COMMUNICATE_TIMEOUT]
    /\ candidate_lines = <<>>
    /\ idx = 0
    /\ parsed_response = PyNone
    /\ last_json_decode_error = PyNone
    /\ response_data = PyNone
    /\ actual_result = PyNone
    /\ exc = "none"
    /\ outcome = NoOutcome
    /\ popen_calls = 1
    /\ stages = {}
    /\ parsed = <<>>
    /\ mpc = "imported"
    /\ args_pr_url = PyNone
    /\ cli_token = PyNone
    /\ pr_details = PyNone
    /\ gemini_api_key = PyNone
    /\ review_text = PyNone
    /\ calls = <<>>
    /\ printed = <<>>
    /\ direct_stub = PyNone
    /\ direct_result = PyNone

\* lines 286-361
NextScan ==
    \/ CheckReturnCode
    \/ CheckStdout
    \/ Split
    \/ ScanLine
    \/ CheckParsed
    \/ CheckError
    \/ Unwrap
    \/ Format
    \/ Except

\* the handling of what communicate() returned
SpecScan == InitScan /\ [][NextScan]_vars

-----------------------------------------------------------------------------
(* Properties *)

\* the session is over
Done == pc = "done"

\* communicate returned the child's output (the child exited in time and
\* its output was text)
Completed == process.state = "reaped" /\ exc # "UnicodeDecodeError"

\* the wait on the child expired
WaitExpired == exc = "TimeoutExpired"

\* every character of the text is whitespace
AllWhitespace(s) == \A i \in 1..Len(s) : IsWs(s[i])

\* the lines of what the child wrote to stdout
WrittenLines == splitlines(strip(process.stdout))

\* line i of the output is a JSON object with a `tool_result` or `error` key
IsTaggedObjectLine(i) ==
    LET r == json_loads(WrittenLines[i])
    IN  /\ ~r.raises
        /\ r.val.t = "obj"
        /\ {"tool_result", "error"} \cap DOMAIN r.val.m # {}

\* C1: when the child exits with code 0 and its stdout has a tagged object
\* line followed only by lines that are not tagged objects (untagged JSON,
\* non-object JSON, noise), the session ends with that tagged line's record
\* selected as parsed_response.
C1_TagBeatsPosition ==
    (Done /\ Completed /\ process.returncode.k = 0) =>
        \A i \in 1..Len(WrittenLines) :
            (/\ IsTaggedObjectLine(i)
             /\ \A j \in (i + 1)..Len(WrittenLines) : ~IsTaggedObjectLine(j))
            => parsed_response = json_loads(WrittenLines[i]).val

\* C2: whenever run_agent is over and a child process had been created, the
\* child has been terminated and reaped.
C2_ChildReapedOnEveryExit ==
    (Done /\ process.state # "none") => process.state = "reaped"

\* C3: when the wait expires, control goes to the handlers only: none of the
\* later statements (return code check, empty output check, split, scan,
\* extraction) runs, no line is parsed, no second process is launched, and
\* the outcome is TimedOut reporting the 60 s limit.
C3_TimeoutIsTerminal ==
    WaitExpired =>
        /\ pc \in {"except", "done"}
        /\ stages = {}
        /\ parsed = <<>>
        /\ popen_calls = 1
        /\ process.timeout = 60
        /\ Done => (outcome.kind = "TimedOut" /\ outcome.seconds = 60)

C3_Witness ==
    Done /\ WaitExpired /\ outcome.kind = "TimedOut" /\ process.stdout # <<>>

\* C4: when the wait expires after the child wrote something to stderr, that
\* text is in the captured stderr_data and is what the TimedOut outcome
\* reports (stripped, first 500 characters).
C4_PartialOutputPreserved ==
    (Done /\ WaitExpired /\ ~AllWhitespace(process.stderr)) =>
        /\ stderr_data = process.stderr
        /\ outcome.stderr = Slice(strip(process.stderr), 500)

\* C5: no element of the argument vector handed to the launcher contains
\* the credential value.
C5_CredentialNotInArgv ==
    (token.t = "str" /\ token.s # "") =>
        /\ \A i \in 1..Len(mcp_command) : ~IsSubstring(token.s, mcp_command[i])
        /\ \A i \in 1..Len(process.argv) : ~IsSubstring(token.s, process.argv[i])

\* C6: with the token variable unset or empty, no process is ever created,
\* no request is ever written, and the session ends by raising ValueError.
C6_MissingTokenBeforeLaunch ==
    (TOKEN_VAR \notin DOMAIN environ \/ environ[TOKEN_VAR] = "") =>
        /\ pc \in {"get_token", "done"}
        /\ popen_calls = 0
        /\ process = NoProcess
        /\ request_json = <<>>
        /\ Done => outcome = [kind |-> "raised", type |-> "ValueError"]

C6_Witness ==
    /\ Done
    /\ TOKEN_VAR \in DOMAIN environ
    /\ environ[TOKEN_VAR] = ""
    /\ outcome.kind = "raised"

\* the outcome kinds of the error taxonomy, and success
ClassifiedKinds ==
    {"LaunchFailure", "ProcessExit", "TimedOut", "EmptyResponse",
     "NoParsableResponse", "ToolError", "UnexpectedShape", "MissingResult",
     "EncodingFailure", "Success"}

\* C7: with the credential present, every session ends in one of the
\* classified outcome kinds, never in the catch-all.
C7_AlwaysClassified ==
    (Done /\ Truthy(token)) => outcome.kind \in ClassifiedKinds

\* C8: when the launcher raises, the outcome is LaunchFailure, and no
\* request was written and no line parsed.
C8_LaunchFailureClassified ==
    (Done /\ popen_calls = 1 /\ process.state = "none") =>
        /\ outcome.kind = "LaunchFailure"
        /\ process.stdin = <<>>
        /\ parsed = <<>>

\* the child exited with a non-zero code and run_agent is over
FailedExit == Done /\ Completed /\ process.returncode.k # 0

\* C9 as stated: after a non-zero exit the outcome is ProcessExit whose
\* message is the (stripped, truncated) stderr text whenever stderr is
\* non-empty, and the stdout text when stderr is empty and stdout is not.
C9_Original ==
    FailedExit =>
        /\ outcome.kind = "ProcessExit"
        /\ process.stderr # <<>> =>
              outcome.message = Slice(strip(process.stderr), 1000)
        /\ (process.stderr = <<>> /\ process.stdout # <<>>) =>
              outcome.message = Slice(strip(process.stdout), 1000)

\* C9 as amended: after a non-zero exit the outcome is ProcessExit with the
\* child's return code; its message is the stripped stderr text when stderr
\* has a non-whitespace character, otherwise the stripped stdout text when
\* stdout has one; in both cases cut to at most 1000 characters.
C9_ProcessExitMessage ==
    FailedExit =>
        /\ outcome.kind = "ProcessExit"
        /\ outcome.returncode = process.returncode.k
        /\ TextLen(outcome.message) <= 1000
        /\ ~AllWhitespace(process.stderr) =>
              outcome.message = Slice(strip(process.stderr), 1000)
        /\ (AllWhitespace(process.stderr) /\ ~AllWhitespace(process.stdout)) =>
              outcome.message = Slice(strip(process.stdout), 1000)

C9_Witness ==
    /\ FailedExit
    /\ outcome.kind = "ProcessExit"
    /\ process.stderr # <<>>
    /\ AllWhitespace(process.stderr)
    /\ TextLen(strip(process.stdout)) > 1000
    /\ TextLen(outcome.message) = 1000

\* C10: when the child exits with code 0 and its stdout is empty or only
\* whitespace, nothing after the empty-output check runs, no line is parsed,
\* and the outcome is EmptyResponse carrying the stripped stderr text (first
\* 1000 characters), or the fixed placeholder when stderr has no text.
C10_EmptyResponseFirst ==
    (Completed /\ process.returncode.k = 0 /\ AllWhitespace(process.stdout)) =>
        /\ stages \subseteq {"check_returncode", "check_stdout"}
        /\ parsed = <<>>
        /\ Done =>
              /\ outcome.kind = "EmptyResponse"
              /\ outcome.stderr =
                    IF AllWhitespace(process.stderr)
                    THEN Lit("No error message on stderr.")
                    ELSE Slice(strip(process.stderr), 1000)

C10_Witness ==
    /\ Done
    /\ Completed
    /\ process.returncode.k = 0
    /\ process.stdout # <<>>
    /\ AllWhitespace(process.stdout)
    /\ ~AllWhitespace(process.stderr)
    /\ outcome.kind = "EmptyResponse"

\* the child exited with code 0 and wrote more than whitespace to stdout
CleanExitWithOutput ==
    Completed /\ process.returncode.k = 0 /\ ~AllWhitespace(process.stdout)

\* no line of the output parses as JSON
NoLineParses ==
    \A i \in 1..Len(WrittenLines) : json_loads(WrittenLines[i]).raises

\* the last line of the output that is not blank
LastNonBlankLine ==
    LET last == CHOOSE i \in 1..Len(WrittenLines) :
                    /\ ~AllWhitespace(WrittenLines[i])
                    /\ \A j \in (i + 1)..Len(WrittenLines) :
                          AllWhitespace(WrittenLines[j])
    IN  WrittenLines[last]

\* C11: when the child exits with code 0 and no line of its non-empty stdout
\* parses as JSON, the outcome is NoParsableResponse carrying the first 500
\* characters of the (stripped) stdout and the parse failure of the last
\* non-blank line, the first one met scanning last-to-first.
C11_NoParsableResponse ==
    (Done /\ CleanExitWithOutput /\ NoLineParses) =>
        /\ outcome.kind = "NoParsableResponse"
        /\ outcome.raw = Slice(strip(process.stdout), 500)
        /\ TextLen(outcome.raw) <= 500
        /\ outcome.decode_error =
              [t |-> "JSONDecodeError", doc |-> LastNonBlankLine]

C11_Witness ==
    /\ Done
    /\ CleanExitWithOutput
    /\ NoLineParses
    /\ outcome.kind = "NoParsableResponse"
    /\ Len(WrittenLines) = 2
    /\ ~AllWhitespace(WrittenLines[1])
    /\ WrittenLines[1] # WrittenLines[2]
    /\ TextLen(strip(process.stdout)) > 500

\* what json.loads gives for the last line of the output
LastLine == json_loads(WrittenLines[Len(WrittenLines)])

\* the last line of the output is a JSON object whose `error` key holds an
\* object
LastLineIsErrorObject ==
    /\ ~LastLine.raises
    /\ LastLine.val.t = "obj"
    /\ "error" \in DOMAIN LastLine.val.m
    /\ LastLine.val.m["error"].t = "obj"

\* C12: when the child exits with code 0 and the last line of stdout is a
\* JSON object whose `error` key holds an object, only that line is parsed
\* and the outcome is ToolError with the object's `message` field as message,
\* whatever precedes the line.
C12_LastLineErrorWins ==
    (Done /\ CleanExitWithOutput /\ LastLineIsErrorObject) =>
        /\ outcome.kind = "ToolError"
        /\ parsed = <<Len(WrittenLines)>>
        /\ "message" \in DOMAIN LastLine.val.m["error"].m =>
              outcome.message = LastLine.val.m["error"].m["message"]

C12_Witness ==
    /\ Done
    /\ CleanExitWithOutput
    /\ LastLineIsErrorObject
    /\ Len(WrittenLines) = 2
    /\ WrittenLines[1] = json_dumps(T_full)
    /\ outcome.kind = "ToolError"
    /\ outcome.message = JStr("bad creds")

\* the selected record is a JSON object whose `tool_result` is an object
\* whose `result` is an object (the payload)
WinnerHasPayload ==
    /\ parsed_response.t = "obj"
    /\ "tool_result" \in DOMAIN parsed_response.m
    /\ parsed_response.m["tool_result"].t = "obj"
    /\ "result" \in DOMAIN parsed_response.m["tool_result"].m
    /\ parsed_response.m["tool_result"].m["result"].t = "obj"

\* the payload of such a record
WinnerPayload == parsed_response.m["tool_result"].m["result"].m

\* the outcome is Success with login and name read from payload p, "N/A"
\* standing for exactly the absent keys
SuccessFrom(p) ==
    /\ outcome.kind = "Success"
    /\ outcome.login = IF "login" \in DOMAIN p THEN p["login"] ELSE JStr("N/A")
    /\ outcome.name = IF "name" \in DOMAIN p THEN p["name"] ELSE JStr("N/A")

\* C13 as stated: whenever the selected record has `tool_result.result`
\* equal to a payload object, the outcome is Success with that payload's
\* login and name ("N/A" for an absent key).
C13_Original ==
    (Done /\ CleanExitWithOutput /\ WinnerHasPayload) =>
        SuccessFrom(WinnerPayload)

\* C13 as amended: whenever the selected record has no `error` key and has
\* `tool_result.result` equal to a payload object, the outcome is Success
\* with that payload's login and name ("N/A" for exactly the absent keys).
C13_SuccessFromPayload ==
    (Done /\ CleanExitWithOutput /\ WinnerHasPayload
          /\ "error" \notin DOMAIN parsed_response.m) =>
        SuccessFrom(WinnerPayload)

C13_Witness ==
    /\ Done
    /\ CleanExitWithOutput
    /\ parsed_response = T_noname
    /\ outcome.kind = "Success"
    /\ outcome.login = JStr("bob")
    /\ outcome.name = JStr("N/A")

\* the selected record is an object with a `tool_result` key and no `error`
\* key
WinnerIsToolResult ==
    /\ parsed_response.t = "obj"
    /\ "tool_result" \in DOMAIN parsed_response.m
    /\ "error" \notin DOMAIN parsed_response.m

\* a `tool_result` value without a usable `result`: null, or an object whose
\* `result` is absent or null
LacksResult(w) ==
    \/ w.t = "null"
    \/ /\ w.t = "obj"
       /\ \/ "result" \notin DOMAIN w.m
          \/ w.m["result"].t = "null"

\* C14: whenever the selected record has a `tool_result` key and no `error`
\* key, a `tool_result` whose `result` is missing or null (an empty
\* `tool_result` object and a null `tool_result` included) yields
\* MissingResult, and a `result` object is the payload of Success.
C14_MissingResult ==
    (Done /\ CleanExitWithOutput /\ WinnerIsToolResult) =>
        /\ LacksResult(parsed_response.m["tool_result"]) =>
              outcome.kind = "MissingResult"
        /\ WinnerHasPayload => SuccessFrom(WinnerPayload)

\* the scan ended (by a tagged line or by exhausting the lines) without
\* raising: parsed_response is what the disambiguation selected
ScanEnded == "check_parsed" \in stages

\* the selected record is an object with neither an `error` key nor a
\* `tool_result` key
WinnerIsUntagged ==
    /\ ScanEnded
    /\ parsed_response.t = "obj"
    /\ "error" \notin DOMAIN parsed_response.m
    /\ "tool_result" \notin DOMAIN parsed_response.m

\* C15: when the selected record has neither an `error` key nor a
\* `tool_result` key, the outcome is Success with the record itself as
\* payload if the record has both a `login` and an `id` key, and
\* UnexpectedShape otherwise.
C15_AlternateShape ==
    (Done /\ CleanExitWithOutput /\ WinnerIsUntagged) =>
        IF {"login", "id"} \subseteq DOMAIN parsed_response.m
        THEN SuccessFrom(parsed_response.m)
        ELSE outcome.kind = "UnexpectedShape"

C15_Witness ==
    /\ Done
    /\ CleanExitWithOutput
    /\ parsed_response = O_user
    /\ outcome.kind = "Success"
    /\ outcome.login = JStr("bob")

\* the one request line: the get_me invocation, newline-terminated
GetMeRequestLine ==
    <<Run(Doc(JObj(Two("mcp_version", JStr("0.1.0"),
                       "tool_invocation",
                       JObj(Two("tool_name", JStr("get_me"),
                                "arguments", JObj(EmptyMap)))))), 85),
      Run(NL, 1)>>

\* C16: a session launches at most one child, writes to it nothing but the
\* one get_me request line (exactly that line once the exchange happened,
\* with a 60 s wait), and once an outcome is produced nothing changes it and
\* nothing is launched or written any more.
C16_SingleExchange ==
    /\ [](/\ popen_calls <= 1
          /\ process.stdin \in {<<>>, GetMeRequestLine}
          /\ (process.state # "none" /\ pc \notin {"popen", "communicate"}) =>
                (process.stdin = GetMeRequestLine /\ process.timeout = 60)
          /\ outcome # NoOutcome => Done)
    /\ [][outcome # NoOutcome =>
             (outcome' = outcome /\ popen_calls' = popen_calls
                                 /\ process' = process)]_vars

C16_Witness ==
    /\ Done
    /\ popen_calls = 1
    /\ process.stdin = GetMeRequestLine
    /\ process.timeout = 60
    /\ outcome.kind = "Success"

-----------------------------------------------------------------------------
(* Properties of the __main__ block *)

\* the program has ended
Exited == mpc = "exit"

\* the functions __main__ called, in order
CallNames == [i \in 1..Len(calls) |-> calls[i].fn]

Called(fn) == \E i \in 1..Len(calls) : calls[i].fn = fn

TimesCalled(fn) == Cardinality({i \in 1..Len(calls) : calls[i].fn = fn})

\* get_gemini_review came back with something other than a review
ReviewFailed ==
    \E i \in 1..Len(calls) :
        calls[i] = Call("get_gemini_review", "failure")

\* C17: in the --pr-url flow, when get_gemini_review returns one of its
\* error or empty-response strings or the skip message, post_pr_comment is
\* not called.
C17_NoPostAfterFailedReview ==
    ReviewFailed => ~Called("post_pr_comment")

\* the run was given a PR URL (the --pr-url flow)
PrUrlFlow == Truthy(args_pr_url)

\* a credential that is unset or empty
NoCredential(name) == ~Truthy(environ_get(environ, name))

Printed(line) == \E i \in 1..Len(printed) : printed[i] = line

\* C18: in the --pr-url flow, without GITHUB_PERSONAL_ACCESS_TOKEN nothing
\* is called and the run ends with the configuration error printed; with
\* the token but without GEMINI_API_KEY only get_pr_details is called,
\* exactly once by the end of the run, and when it returned the Gemini
\* configuration error is printed.
C18_MissingCredentialGates ==
    PrUrlFlow =>
      /\ NoCredential(TOKEN_VAR) =>
            /\ calls = <<>>
            /\ Exited => Printed("--- Configuration Error ---")
      /\ (~NoCredential(TOKEN_VAR) /\ NoCredential(GEMINI_VAR)) =>
            /\ \A i \in 1..Len(calls) : calls[i].fn = "get_pr_details"
            /\ Len(calls) <= 1
            /\ Exited =>
                 /\ Len(calls) = 1
                 /\ calls[1].result = "returned" =>
                        Printed("--- Gemini Configuration Error ---")

C18_Witness ==
    /\ Exited
    /\ PrUrlFlow
    /\ ~NoCredential(TOKEN_VAR)
    /\ GEMINI_VAR \notin DOMAIN environ
    /\ calls = <<Call("get_pr_details", "returned")>>
    /\ Printed("--- Gemini Configuration Error ---")

\* the other case of C18: no GitHub token, the run is over
C18_WitnessNoToken ==
    /\ Exited
    /\ PrUrlFlow
    /\ TOKEN_VAR \notin DOMAIN environ
    /\ calls = <<>>
    /\ Printed("--- Configuration Error ---")

PrFlowOrder == <<"get_pr_details", "get_gemini_review", "post_pr_comment">>

\* C19: in the --pr-url flow the calls made are a prefix of get_pr_details,
\* get_gemini_review, post_pr_comment (so each is made at most once and in
\* that order); a call is followed by another only if it returned (did not
\* raise); and after a post that failed the run ends with the failure
\* printed and no further call.
C19_FixedOrderNoRetry ==
    PrUrlFlow =>
      /\ Len(calls) <= 3
      /\ \A i \in 1..Len(calls) : calls[i].fn = PrFlowOrder[i]
      /\ \A i \in 1..Len(calls) :
             calls[i].result = "raised" => Len(calls) = i
      /\ \A i \in 1..Len(calls) :
             calls[i] = Call("post_pr_comment", "not_posted") =>
                 /\ Exited
                 /\ Len(calls) = i
                 /\ printed[Len(printed)]
                       = "Failed to post review comment to the PR."

C19_Witness ==
    /\ Exited
    /\ PrUrlFlow
    /\ CallNames = PrFlowOrder
    /\ calls[3].result = "not_posted"

\* the other case of C19: get_pr_details failed
C19_WitnessFetchFailed ==
    /\ Exited
    /\ PrUrlFlow
    /\ GEMINI_VAR \in DOMAIN environ
    /\ calls = <<Call("get_pr_details", "raised")>>

PrFunctions == {"get_pr_details", "get_gemini_review", "post_pr_comment"}

\* C20 as stated: without --pr-url (args.pr_url is None) run_agent is called
\* once and no PR function is called; with --pr-url (any value) run_agent
\* is never called.
C20_Original ==
    /\ args_pr_url = PyNone =>
          /\ \A i \in 1..Len(calls) : calls[i].fn \notin PrFunctions
          /\ TimesCalled("run_agent") <= 1
          /\ Exited => TimesCalled("run_agent") = 1
    /\ args_pr_url # PyNone =>
          /\ ~Called("run_agent")
          /\ popen_calls = 0

\* C20: the two modes are mutually exclusive, selected by whether a
\* non-empty --pr-url value was given: without one (no option, or an empty
\* value) run_agent is called exactly once by the end of the run and no PR
\* function is called; with one run_agent is never called and no child is
\* launched.
C20_ModesExclusive ==
    /\ ~PrUrlFlow =>
          /\ \A i \in 1..Len(calls) : calls[i].fn \notin PrFunctions
          /\ TimesCalled("run_agent") <= 1
          /\ Exited => TimesCalled("run_agent") = 1
    /\ PrUrlFlow =>
          /\ ~Called("run_agent")
          /\ popen_calls = 0
          /\ pc = "not_called"

C20_Witness ==
    /\ Exited
    /\ args_pr_url = JStr("")
    /\ CallNames = <<"run_agent">>
    /\ popen_calls = 1

\* the other mode of C20: a run with a URL that ended in an error
C20_WitnessPrFlow ==
    /\ Exited
    /\ PrUrlFlow
    /\ calls = <<Call("get_pr_details", "raised")>>
    /\ ~Called("run_agent")

-----------------------------------------------------------------------------
(* Properties of the PR functions *)

\* the direct call of fn has returned or raised
DirectDone(fn) ==
    mpc = "returned" /\ Len(calls) = 1 /\ calls[1].fn = fn

\* the pr_details argument has no diff key or an empty diff
EmptyOrMissingDiff ==
    \/ "diff" \notin DOMAIN pr_details.m
    \/ pr_details.m["diff"] = JStr("")

\* C21: for every API key, get_gemini_review called with an empty or
\* missing diff returns the skip message and does not call
\* generate_content.
C21_SkipOnEmptyDiff ==
    (DirectDone("get_gemini_review") /\ EmptyOrMissingDiff) =>
        /\ direct_result.text
              = "Skipping review as the PR diff is empty or not provided."
        /\ direct_result.generate_calls = 0

\* the segments of the pr_url argument
UrlSegments == split(args_pr_url.s, "/")

\* the pr_url argument reads scheme://host/owner/repo/pull/number, with an
\* optional trailing slash and scheme http or https
FormOfPrUrl ==
    LET p == UrlSegments IN
    /\ Len(p) \in {7, 8}
    /\ p[1] \in {"https:", "http:"}
    /\ p[2] = ""
    /\ p[3] # "" /\ p[4] # "" /\ p[5] # ""
    /\ p[6] = "pull"
    /\ isdigit(p[7])
    /\ Len(p) = 8 => p[8] = ""

RealToken == cli_token # JStr("SIMULATE_SUCCESSFUL_PR_FETCH")

\* C22: with a non-simulation token, get_pr_details does not reject a URL
\* of the form scheme://host/owner/repo/pull/number[/] (http included), and
\* its first request goes to
\* https://api.github.com/repos/{owner}/{repo}/pulls/{number}.
C22_WellFormedUrlAccepted ==
    (DirectDone("get_pr_details") /\ RealToken /\ FormOfPrUrl) =>
        /\ direct_result.requests # <<>>
        /\ direct_result.requests[1].url
              = "https://api.github.com/repos/" \o UrlSegments[4] \o "/"
                   \o UrlSegments[5] \o "/pulls/" \o UrlSegments[7]

GitHubHosts == {"github.com", "www.github.com"}

\* the pr_url argument is malformed: not of the form above, or its host is
\* not github.com
MalformedPrUrl == ~FormOfPrUrl \/ UrlSegments[3] \notin GitHubHosts

\* C23: with a non-simulation token, get_pr_details raises ValueError for
\* every malformed URL, whatever the HTTP collaborator answers.
C23_MalformedUrlRejected ==
    (DirectDone("get_pr_details") /\ RealToken /\ MalformedPrUrl) =>
        /\ direct_result.raises
        /\ direct_result.exc.type = "ValueError"

\* C24: post_pr_comment returns True exactly when the POST answered 201;
\* 401, 403 and 404 get distinct advisory messages; for an invalid
\* (malformed) PR URL no request is issued.
C24_PostResult ==
    DirectDone("post_pr_comment") =>
        /\ direct_result.val
              <=> (direct_result.requests # <<>>
                   /\ direct_stub.kind = "response"
                   /\ direct_stub.status = 201)
        /\ (direct_result.requests # <<>> /\ direct_stub.kind = "response"
               /\ direct_stub.status \in {401, 403, 404}) =>
              /\ direct_result.advisory # ""
              /\ \A s \in {401, 403, 404} \ {direct_stub.status} :
                     direct_result.advisory # PostAdvisory(s)
        /\ MalformedPrUrl => direct_result.requests = <<>>

-----------------------------------------------------------------------------
(* Properties of the scan with more lines *)

\* the tagged object lines of stdout
TaggedLines == {i \in 1..Len(WrittenLines) : IsTaggedObjectLine(i)}

\* the tagged object line latest in the output
LatestTagged == CHOOSE i \in TaggedLines : \A j \in TaggedLines : j <= i

\* C25: when stdout (exit code 0) has several tagged lines, the session
\* ends with the latest of them selected, and no line before it was handed
\* to json.loads.
C25_LatestTaggedWins ==
    (Done /\ Completed /\ process.returncode.k = 0
          /\ Cardinality(TaggedLines) >= 2) =>
        /\ parsed_response = json_loads(WrittenLines[LatestTagged]).val
        /\ \A k \in 1..Len(parsed) : parsed[k] >= LatestTagged

\* the lines of stdout that parse as JSON
ParsableLines ==
    {i \in 1..Len(WrittenLines) : ~json_loads(WrittenLines[i]).raises}

\* the parsable line latest in the output
LatestParsable == CHOOSE i \in ParsableLines : \A j \in ParsableLines : j <= i

\* C26: when stdout (exit code 0) has no tagged line but has a line that
\* parses as JSON, the session ends with the latest parsable line selected
\* and the outcome is not NoParsableResponse.
C26_LatestParsableIsFallback ==
    (Done /\ Completed /\ process.returncode.k = 0
          /\ TaggedLines = {} /\ ParsableLines # {}) =>
        /\ parsed_response = json_loads(WrittenLines[LatestParsable]).val
        /\ outcome.kind # "NoParsableResponse"

\* the statements of disambiguation and extraction
AfterOutputChecks ==
    {"split", "scan", "check_parsed", "check_error", "unwrap", "format"}

\* C27: a child that exited with a non-zero code gives ProcessExit whatever
\* its stdout holds, and no line is parsed; the statements of
\* disambiguation and extraction run only after the child completed with
\* exit code 0 and stdout that is not blank.
C27_FixedPrecedence ==
    /\ (Done /\ Completed /\ process.returncode.k # 0) =>
          /\ outcome.kind = "ProcessExit"
          /\ parsed = <<>>
          /\ stages \cap AfterOutputChecks = {}
    /\ (stages \cap AfterOutputChecks # {} \/ parsed # <<>>) =>
          /\ process.state = "reaped"
          /\ process.returncode.k = 0
          /\ ~AllWhitespace(process.stdout)

C27_Witness ==
    /\ Done
    /\ Completed
    /\ process.returncode.k = 1
    /\ Len(WrittenLines) = 2
    /\ WrittenLines[2] = json_dumps(T_full)
    /\ outcome.kind = "ProcessExit"
    /\ parsed = <<>>

\* the other case of C27: extraction was reached
C27_WitnessExtraction ==
    /\ Done
    /\ "format" \in stages
    /\ process.returncode.k = 0
    /\ outcome.kind = "Success"

\* the selected record is an object with an `error` key
WinnerHasError ==
    /\ ScanEnded
    /\ parsed_response.t = "obj"
    /\ "error" \in DOMAIN parsed_response.m

\* the `error` value of such a record
WinnerError == parsed_response.m["error"]

\* C28: whenever the selected record has an `error` key, whatever its value
\* and whatever else the record holds, the outcome is ToolError; its message
\* is the `message` field of the error, "Unknown MCP error" when the error
\* has none.
C28_ErrorKeyIsToolError ==
    (Done /\ CleanExitWithOutput /\ WinnerHasError) =>
        /\ outcome.kind = "ToolError"
        /\ outcome.message =
              IF WinnerError.t = "obj" /\ "message" \in DOMAIN WinnerError.m
              THEN WinnerError.m["message"]
              ELSE JStr("Unknown MCP error")

====
